---- MODULE Spec2Model ----
(***************************************************************************)
(* Interactive molecular dynamics (IMD) session layer of                   *)
(* src/src/gromacs/imd/imd.cpp: connection handling, command dispatch,     *)
(* group synchronisation and force application, as a state machine over    *)
(* the per-rank t_gmx_IMD_setup structures.                                *)
(***************************************************************************)
EXTENDS Integers, Sequences, FiniteSets, TLC

(* ----------------------------- bounds --------------------------------- *)
\* number of simulation steps explored
MaxStep == 2
\* largest number of ranks of a run (rank 0 is the master)
MaxNodes == 2

(* ------------------------ program constants --------------------------- *)
IMD_DISCONNECT == 0
IMD_ENERGIES == 1
IMD_FCOORDS == 2
IMD_GO == 3
IMD_HANDSHAKE == 4
IMD_KILL == 5
IMD_MDCOMM == 6
IMD_PAUSE == 7
IMD_TRATE == 8
IMD_IOERROR == 9
IMD_NR == 10
\* CAL2JOULE (4.184) in thousandths; applied forces are kept in thousandths
CAL2JOULE_x1000 == 4184
NM2A == 10

(* ------------------------- run configuration -------------------------- *)
\* ir->imd->ind: global indices of the IMD atoms (sorted), nat = Len(ind)
ind == <<1, 2>>
nat == Len(ind)
\* top_global->natoms
natoms == 3
\* index lists a .tpr file can hand to init_IMD: ind, and ind backwards
IndexLists == {ind, [i \in 1..nat |-> ind[nat + 1 - i]]}
\* the check that opens init_imd_prepare_mols_in_imdgroup
index_sorted(l) == \A i \in 1..(Len(l) - 1) : ~(l[i] > l[i + 1])
\* ir->nstcalcenergy, handed to prepareSession as nstimddef
NstimdDefVals == {2}
\* values a client puts into the length field of IMD_TRATE
RateVals == {-1, 0, 1}
\* value of a slot of a grown (srenew) array that was never written
UninitIdx == {0}
UninitFloat == {0}

(* ----------------------------- header codec --------------------------- *)
\* the four bytes of a 32-bit two's-complement word, least significant first
Bytes(v) ==
    << v % 256, (v \div 256) % 256, (v \div 65536) % 256,
       (v \div 16777216) % 256 >>

\* the 32-bit two's-complement word of four bytes, least significant first
Word(b) ==
    b[1] + 256 * b[2] + 65536 * b[3]
         + 16777216 * (IF b[4] >= 128 THEN b[4] - 256 ELSE b[4])

\* imd_htonl: host to network (big-endian) byte order; the bytes are
\* reversed on a little-endian host and kept on a big-endian one
imd_htonl(v, big) ==
    IF big THEN v
    ELSE LET b == Bytes(v) IN Word(<<b[4], b[3], b[2], b[1]>>)

\* imd_ntohl: network to host byte order
imd_ntohl(v, big) ==
    IF big THEN v
    ELSE LET b == Bytes(v) IN Word(<<b[4], b[3], b[2], b[1]>>)

fill_header(type, length, big) ==
    [type |-> imd_htonl(type, big), length |-> imd_htonl(length, big)]

\* swap_header that leaves the length as it came off the wire
swap_header_type_only(h, big) ==
    [type |-> imd_ntohl(h.type, big), length |-> h.length]

swap_header(h, big) ==
    [type |-> imd_ntohl(h.type, big), length |-> imd_ntohl(h.length, big)]

\* message kinds and int32_t lengths put into a header
HeaderTypes == IMD_DISCONNECT .. IMD_NR
HeaderLengths ==
    {-2147483647 - 1, -2147483647, -16777216, -256, -1, 0, 1, 127, 128, 255,
     256, 65535, 65536, 16909060, 2147483647}

\* header while no header is under way
NoHeader == [stage |-> "none"]

(* ------------------------ making molecules whole ---------------------- *)
XX == 1
YY == 2
ZZ == 3

\* TRICLINIC(box): an off-diagonal element of the box is not zero
TRICLINIC(box) == box[YY][XX] # 0 \/ box[ZZ][XX] # 0 \/ box[ZZ][YY] # 0

\* body of the loops of shift_positions: one position moved by -is boxes
shift_position(box, x, is) ==
    IF TRICLINIC(box)
       THEN << x[XX] - is[XX] * box[XX][XX] - is[YY] * box[YY][XX]
                     - is[ZZ] * box[ZZ][XX],
               x[YY] - is[YY] * box[YY][YY] - is[ZZ] * box[ZZ][YY],
               x[ZZ] - is[ZZ] * box[ZZ][ZZ] >>
       ELSE << x[XX] - is[XX] * box[XX][XX],
               x[YY] - is[YY] * box[YY][YY],
               x[ZZ] - is[ZZ] * box[ZZ][ZZ] >>

\* shift_positions that stops one position early
shift_positions_short(box, xa, first, is, nr) ==
    [k \in 1..Len(xa) |->
        IF first < k /\ k <= first + nr - 1
           THEN shift_position(box, xa[k], is) ELSE xa[k]]

\* shift_positions(box, &xa[first], is, nr): the nr positions from first on
shift_positions(box, xa, first, is, nr) ==
    [k \in 1..Len(xa) |->
        IF first < k /\ k <= first + nr
           THEN shift_position(box, xa[k], is) ELSE xa[k]]

\* largest and smallest shift of the atoms lo .. hi-1 in dimension d
largest(xa_shifts, lo, hi, d) ==
    CHOOSE v \in {xa_shifts[k][d] : k \in (lo + 1)..hi} :
        \A k \in (lo + 1)..hi : xa_shifts[k][d] <= v

smallest(xa_shifts, lo, hi, d) ==
    CHOOSE v \in {xa_shifts[k][d] : k \in (lo + 1)..hi} :
        \A k \in (lo + 1)..hi : xa_shifts[k][d] >= v

\* the shift taken from the far end: the largest of positive shifts, the
\* smallest of negative ones
mol_shift_far(xa_shifts, lo, hi) ==
    [d \in 1..3 |->
        LET pos == IF smallest(xa_shifts, lo, hi, d) > 0
                      THEN largest(xa_shifts, lo, hi, d) ELSE 0
        IN  IF largest(xa_shifts, lo, hi, d) < 0
               THEN smallest(xa_shifts, lo, hi, d) ELSE pos]

\* the shift imd_remove_molshifts takes off the molecule of atoms
\* lo .. hi-1: cleared, then set from smallest, then from largest
mol_shift(xa_shifts, lo, hi) ==
    [d \in 1..3 |->
        LET pos == IF smallest(xa_shifts, lo, hi, d) > 0
                      THEN smallest(xa_shifts, lo, hi, d) ELSE 0
        IN  IF largest(xa_shifts, lo, hi, d) < 0
               THEN largest(xa_shifts, lo, hi, d) ELSE pos]

\* imd_remove_molshifts from molecule i on; mols is the index array of the
\* molecule block (mols.nr = Len(mols) - 1)
RECURSIVE imd_remove_molshifts(_, _, _, _, _)
imd_remove_molshifts(box, mols, xa_shifts, xa, i) ==
    IF i >= Len(mols) THEN xa
    ELSE LET shift == mol_shift(xa_shifts, mols[i], mols[i + 1])
             molsize == mols[i + 1] - mols[i]
             moved == IF shift[XX] # 0 \/ shift[YY] # 0 \/ shift[ZZ] # 0
                         THEN shift_positions(box, xa, mols[i], shift, molsize)
                         ELSE xa
         IN  imd_remove_molshifts(box, mols, xa_shifts, moved, i + 1)

\* the grouping with an entry for every block of the global molecules,
\* whether or not its range holds IMD atoms
RECURSIVE prepare_mols_every_block(_, _, _)
prepare_mols_every_block(gmols, lmols, i) ==
    IF i >= Len(gmols) THEN lmols
    ELSE LET count == Cardinality({ii \in 1..nat :
                          gmols[i] <= ind[ii] /\ ind[ii] < gmols[i + 1]})
         IN  prepare_mols_every_block(gmols,
                 Append(lmols, lmols[Len(lmols)] + count), i + 1)

\* init_imd_prepare_mols_in_imdgroup from block i of the global molecules
\* on: a block whose range holds IMD atoms adds their count to lmols.index
RECURSIVE init_imd_prepare_mols_in_imdgroup(_, _, _)
init_imd_prepare_mols_in_imdgroup(gmols, lmols, i) ==
    IF i >= Len(gmols) THEN lmols
    ELSE LET count == Cardinality({ii \in 1..nat :
                          gmols[i] <= ind[ii] /\ ind[ii] < gmols[i + 1]})
         IN  init_imd_prepare_mols_in_imdgroup(gmols,
                 IF count > 0 THEN Append(lmols, lmols[Len(lmols)] + count)
                              ELSE lmols,
                 i + 1)

\* gmx_mtop_molecules: the ways to cut atoms 0 .. k-1 into molecules, each
\* given by the starts of its blocks and k
RECURSIVE Cuts(_)
Cuts(k) ==
    IF k = 0 THEN {<<0>>}
    ELSE {Append(c, k) : c \in UNION {Cuts(j) : j \in 0..(k - 1)}}

\* periodic shifts of one atom, per dimension
ShiftVals == {-2, -1, 0, 1, 2}
ShiftVecs == {<<a, b, c>> : a \in ShiftVals, b \in ShiftVals, c \in ShiftVals}

\* a rectangular and a triclinic box
Boxes ==
    { <<<<5, 0, 0>>, <<0, 7, 0>>, <<0, 0, 11>>>>,
      <<<<5, 0, 0>>, <<1, 7, 0>>, <<2, 3, 11>>>> }

\* the assembled positions of the IMD atoms
Positions == [k \in 1..nat |-> <<10 * k, 20 * k + 1, 30 * k + 2>>]

\* gather outside the unwrapping of positions
NoGather == [stage |-> "none"]

(* ---------------------------- energy record --------------------------- *)
\* an int64_t step as its upper and lower 32 bits, each as a signed word:
\* the value is hi * 2^32 + (lo read as unsigned)
Step64(h, l) == [hi |-> h, lo |-> l]

\* step + 1 in 64 bits
next_step(st) ==
    IF st.lo = 2147483647 THEN Step64(st.hi, -2147483647 - 1)
    ELSE IF st.lo = -1 THEN Step64(st.hi + 1, 0)
    ELSE Step64(st.hi, st.lo + 1)

\* ene->tstep = step: the int64_t is narrowed to the int32_t field, which
\* keeps the lower 32 bits
narrow_int32(st) == st.lo

\* the int64_t value of an int32_t (sign extension)
widen_int64(w) == Step64(IF w < 0 THEN -1 ELSE 0, w)

\* unit in the last place of a float holding the integer magnitude a
RECURSIVE float_ulp(_)
float_ulp(a) == IF a < 16777216 THEN 1 ELSE 2 * float_ulp(a \div 2)

\* static_cast<float> of a double holding the integer v: 24 significant
\* bits, round to nearest, ties to even
float_cast(v) ==
    LET a == IF v < 0 THEN 0 - v ELSE v
        u == float_ulp(a)
        q == a \div u
        r == a % u
        up == 2 * r > u \/ (2 * r = u /\ q % 2 = 1)
        m == IF up THEN (q + 1) * u ELSE q * u
    IN  IF v < 0 THEN 0 - m ELSE m

\* snew(IMDsetup->energies, 1)
ZeroEnergies ==
    [tstep |-> 0, T_abs |-> 0, E_tot |-> 0, E_pot |-> 0, E_vdw |-> 0,
     E_coul |-> 0, E_bond |-> 0, E_angle |-> 0, E_dihe |-> 0, E_impr |-> 0]

\* IMD_fill_energy_record on the record ene of a structure with
\* sessionPossible sp and client socket cs
IMD_fill_energy_record(sp, cs, ene, enerd, st, bHaveNewEnergies) ==
    IF sp /\ cs
       THEN IF bHaveNewEnergies
               THEN [tstep |-> narrow_int32(st),
                     T_abs |-> float_cast(enerd.F_TEMP),
                     E_pot |-> float_cast(enerd.F_EPOT),
                     E_tot |-> float_cast(enerd.F_ETOT),
                     E_bond |-> float_cast(enerd.F_BONDS),
                     E_angle |-> float_cast(enerd.F_ANGLES),
                     E_dihe |-> float_cast(enerd.F_PDIHS),
                     E_impr |-> float_cast(enerd.F_IDIHS),
                     E_vdw |-> float_cast(enerd.F_LJ),
                     E_coul |-> float_cast(enerd.F_COUL_SR)]
               ELSE [ene EXCEPT !.tstep = narrow_int32(st)]
       ELSE ene

\* energy terms of the physics engine at a step
Enerds ==
    { [F_TEMP |-> 300, F_EPOT |-> -5000, F_ETOT |-> -4000, F_BONDS |-> 11,
       F_ANGLES |-> 12, F_PDIHS |-> 13, F_IDIHS |-> 14, F_LJ |-> -15,
       F_COUL_SR |-> -16],
      [F_TEMP |-> 301, F_EPOT |-> -16777217, F_ETOT |-> 33554434,
       F_BONDS |-> 21, F_ANGLES |-> 22, F_PDIHS |-> 23, F_IDIHS |-> 24,
       F_LJ |-> -25, F_COUL_SR |-> -26] }

\* steps at which the first call of a run is looked at
FirstSteps ==
    {Step64(0, 0), Step64(0, 2147483647), Step64(0, -1), Step64(1, -1)}

\* energy outside a run of calls
NoEnergy == [stage |-> "none"]

(* ------------------------- small sequence helpers --------------------- *)
\* first n entries of s (n <= Len(s))
Prefix(s, n) == [i \in 1..n |-> s[i]]

\* srenew(ptr, n): keeps the common prefix, new slots hold what fill gives
srenew(old, n, fill) ==
    [i \in 1..n |-> IF i <= Len(old) THEN old[i] ELSE fill]

\* a read that delivered the first Len(got) entries into buf
ReadInto(buf, got) ==
    [i \in 1..Len(buf) |-> IF i <= Len(got) THEN got[i] ELSE buf[i]]

(* --------------------------- client inputs ---------------------------- *)
\* complete force-data payloads: indices into ind, flat 3N force array
Batches ==
    { [idx |-> <<>>,     frc |-> <<>>],
      [idx |-> <<0>>,    frc |-> <<1, 0, 0>>],
      [idx |-> <<1>>,    frc |-> <<0, 1, 0>>],
      [idx |-> <<0, 1>>, frc |-> <<1, 0, 0, 0, 1, 0>>] }

\* a further payload for the runs that keep a force log: the two-atom batch
\* with another force on the second atom
LogBatches ==
    { [idx |-> <<0, 1>>, frc |-> <<1, 0, 0, 1, 0, 0>>] }

\* a payload whose index is no place of ind: the first place past its end
BadIndexBatches ==
    { [idx |-> <<nat>>, frc |-> <<0, 0, 1>>] }

\* what the socket delivers for an IMD_MDCOMM of declared length n:
\* all of it, only some of the indices, or the indices and some floats
MdcommPayloads ==
    { [n |-> Len(b.idx), idx |-> b.idx, frc |-> b.frc] : b \in Batches }
    \cup
    { [n |-> Len(b.idx), idx |-> Prefix(b.idx, k), frc |-> <<>>] :
          b \in {c \in Batches : Len(c.idx) > 0}, k \in {0} }
    \cup
    { [n |-> Len(b.idx), idx |-> b.idx, frc |-> Prefix(b.frc, m)] :
          b \in {c \in Batches : Len(c.idx) > 0}, m \in {1} }

\* messages the dispatcher can find on the client socket
Messages ==
    { [type |-> t, length |-> 0, idx |-> <<>>, frc |-> <<>>] :
          t \in {IMD_DISCONNECT, IMD_ENERGIES, IMD_FCOORDS, IMD_GO,
                 IMD_HANDSHAKE, IMD_KILL, IMD_PAUSE, IMD_IOERROR, IMD_NR} }
    \cup
    { [type |-> IMD_TRATE, length |-> v, idx |-> <<>>, frc |-> <<>>] :
          v \in RateVals }
    \cup
    { [type |-> IMD_MDCOMM, length |-> p.n, idx |-> p.idx, frc |-> p.frc] :
          p \in MdcommPayloads }
    \cup
    { [type |-> IMD_MDCOMM, length |-> -1, idx |-> <<>>, frc |-> <<>>] }

\* the messages of a run with options o: with a force log the further
\* payloads as well, with a client that does not keep to the list of IMD
\* atoms the payload with the index past the list
RunMessages(o) ==
    Messages \cup
    { [type |-> IMD_MDCOMM, length |-> Len(b.idx), idx |-> b.idx,
       frc |-> b.frc] :
          b \in (IF o.forcelog THEN LogBatches ELSE {})
                \cup (IF o.client = "wild" THEN BadIndexBatches ELSE {}) }

\* outcome of one connection attempt on the listening socket
ConnectInputs ==
    {"none", "accept_fail", "handshake_fail", "timeout", "ioerror",
     "wrong_first", "go"}

(* --------------------------- session record --------------------------- *)
\* snew(IMDsetup, 1): the zero-initialised structure
ZeroSetup ==
    [ sessionPossible |-> FALSE,
      nstimd |-> 0, nstimd_new |-> 0, nstimd_def |-> 0,
      socket |-> FALSE, clientsocket |-> FALSE, length |-> 0,
      bWConnect |-> FALSE, bTerminated |-> FALSE, bTerminatable |-> FALSE,
      bConnected |-> FALSE, bNewForces |-> FALSE, bForceActivated |-> FALSE,
      vmd_nforces |-> 0, vmd_f_ind |-> <<>>, vmd_forces |-> <<>>,
      nforces |-> 0, f_ind |-> <<>>, f |-> <<>>,
      outf |-> FALSE,
      old_nforces |-> 0, old_f_ind |-> <<>>, old_forces |-> <<>>,
      \* local of imd_sync_nodes, as the last call of the step left it
      new_nforces |-> 0,
      \* bookkeeping: an IMD_TRATE was handled since the client was accepted
      rated |-> FALSE,
      \* bookkeeping: imd_disconnect calls made by the running entry point
      disconnects |-> 0,
      \* bookkeeping: lines the running entry point wrote to outf
      written |-> <<>> ]

prepareSession(s, nstimddef) ==
    [s EXCEPT !.sessionPossible = TRUE,
              !.bTerminated = FALSE, !.bTerminatable = FALSE,
              !.bWConnect = FALSE, !.bConnected = FALSE,
              !.bForceActivated = FALSE, !.bNewForces = FALSE,
              !.nstimd = 1, !.nstimd_new = 1, !.nstimd_def = nstimddef]

\* imd_disconnect that also drops the pending forces
imd_disconnect_drops_pending(s) ==
    [s EXCEPT !.nstimd_new = s.nstimd_def,
              !.clientsocket = FALSE,
              !.bConnected = FALSE,
              !.bNewForces = FALSE,
              !.rated = FALSE,
              !.disconnects = s.disconnects + 1]

imd_disconnect(s) ==
    [s EXCEPT !.nstimd_new = s.nstimd_def,
              !.clientsocket = FALSE,
              !.bConnected = FALSE,
              !.rated = FALSE,
              !.disconnects = s.disconnects + 1]

imd_fatal(s) == imd_disconnect(s)

\* imd_tryconnect that accepts a client only on a structure that never
\* disconnected one (nstimd_new still as prepareSession left it)
imd_tryconnect_once(s, c) ==
    IF c = "none" \/ s.nstimd_new = s.nstimd_def THEN s
    ELSE IF c = "accept_fail" THEN [s EXCEPT !.clientsocket = FALSE]
    ELSE IF c = "handshake_fail" THEN imd_fatal([s EXCEPT !.clientsocket = TRUE])
    ELSE LET acc == [s EXCEPT !.clientsocket = TRUE, !.rated = FALSE]
             hdr == IF c \in {"go", "wrong_first"}
                       THEN [acc EXCEPT !.length = 0] ELSE acc
             chk == IF c # "go" THEN imd_fatal(hdr) ELSE hdr
         IN  [chk EXCEPT !.bConnected = TRUE]

\* imd_tryconnect; c is what happens on the sockets during the attempt
imd_tryconnect(s, c) ==
    IF c = "none" THEN s
    ELSE IF c = "accept_fail" THEN [s EXCEPT !.clientsocket = FALSE]
    ELSE IF c = "handshake_fail" THEN imd_fatal([s EXCEPT !.clientsocket = TRUE])
    ELSE LET acc == [s EXCEPT !.clientsocket = TRUE, !.rated = FALSE]
             \* imd_recv_header stores the length only if a header arrived
             hdr == IF c \in {"go", "wrong_first"}
                       THEN [acc EXCEPT !.length = 0] ELSE acc
             chk == IF c # "go" THEN imd_fatal(hdr) ELSE hdr
         IN  [chk EXCEPT !.bConnected = TRUE]

\* imd_recv_mdcomm result: TRUE iff all indices and all floats arrived
imd_recv_mdcomm(m) ==
    Len(m.idx) = m.length /\ Len(m.frc) = 3 * m.length

\* imd_read_vmd_Forces for a header length >= 0
imd_read_vmd_Forces(s, m, gi, gf) ==
    LET n   == s.length
        i0  == srenew(s.vmd_f_ind, n, gi)
        f0  == srenew(s.vmd_forces, 3 * n, gf)
        i1  == ReadInto(i0, m.idx)
        f1  == IF Len(m.idx) = n THEN ReadInto(f0, m.frc) ELSE f0
        rd  == [s EXCEPT !.vmd_nforces = n, !.vmd_f_ind = i1, !.vmd_forces = f1]
    IN  IF imd_recv_mdcomm(m) THEN rd ELSE imd_fatal(rd)

\* unit conversion of one force component, in thousandths of kJ/(mol nm)
conversion == CAL2JOULE_x1000 * NM2A

imd_prepare_MD_Forces(s) ==
    [s EXCEPT !.f_ind = srenew(s.f_ind, s.nforces, 0),
              !.f = srenew(s.f, s.nforces, <<0, 0, 0>>)]

imd_copyto_MD_Forces(s) ==
    [s EXCEPT !.f_ind = [i \in 1..s.nforces |-> s.vmd_f_ind[i]],
              !.f = [i \in 1..s.nforces |->
                        << s.vmd_forces[3*(i-1) + 1] * conversion,
                           s.vmd_forces[3*(i-1) + 2] * conversion,
                           s.vmd_forces[3*(i-1) + 3] * conversion >>]]

(* ----------------------------- force log ------------------------------ *)
\* open_imd_out: with a file name the log is opened and the snapshot
\* arrays are allocated (zeroed) for nat entries; without, outf is null
open_imd_out(s, fn) ==
    IF fn THEN [s EXCEPT !.outf = TRUE,
                         !.old_f_ind = [i \in 1..nat |-> 0],
                         !.old_forces = [i \in 1..nat |-> <<0, 0, 0>>]]
          ELSE s

bForcesChanged(s) ==
    \/ s.nforces # s.old_nforces
    \/ \E i \in 1..s.nforces : s.f_ind[i] # s.old_f_ind[i]
    \/ \E i \in 1..s.nforces : s.f[i] # s.old_forces[i]

\* keep_old_values that takes over the count alone
keep_old_values_count_only(s) ==
    [s EXCEPT !.old_nforces = s.nforces]

keep_old_values(s) ==
    [s EXCEPT !.old_nforces = s.nforces,
              !.old_f_ind = [i \in 1..Len(s.old_f_ind) |->
                                IF i <= s.nforces THEN s.f_ind[i]
                                                  ELSE s.old_f_ind[i]],
              !.old_forces = [i \in 1..Len(s.old_forces) |->
                                 IF i <= s.nforces THEN s.f[i]
                                                   ELSE s.old_forces[i]]]

rvecs_differ(v1, v2) == \E i \in 1..3 : v1[i] # v2[i]

\* the atoms of one line of the log: entries i..nforces whose force differs
\* from the snapshot, as <<1-based global atom number, force>>
RECURSIVE changed_entries(_, _)
changed_entries(s, i) ==
    IF i > s.nforces THEN <<>>
    ELSE (IF rvecs_differ(s.f[i], s.old_forces[i])
             THEN << <<ind[s.f_ind[i] + 1] + 1, s.f[i]>> >>
             ELSE <<>>) \o changed_entries(s, i + 1)

\* output_imd_forces that lists every entry of the batch
output_imd_forces_all(s, time) ==
    IF bForcesChanged(s)
       THEN keep_old_values(
                [s EXCEPT !.written = Append(s.written,
                     [time |-> time, nforces |-> s.nforces,
                      atoms |-> [i \in 1..s.nforces |->
                                    <<ind[s.f_ind[i] + 1] + 1, s.f[i]>>]])])
       ELSE s

\* output_imd_forces: one line (time, count, changed entries) if the batch
\* differs from the snapshot, and the snapshot is renewed
output_imd_forces(s, time) ==
    IF bForcesChanged(s)
       THEN keep_old_values(
                [s EXCEPT !.written = Append(s.written,
                     [time |-> time, nforces |-> s.nforces,
                      atoms |-> changed_entries(s, 1)])])
       ELSE s

(* --------------------------- synchronisation -------------------------- *)
\* the first broadcast with its value left aside: every rank goes on with
\* its own bConnected
sync_bConnected_local(s, par, root) == s

\* first broadcast of imd_sync_nodes: the master's bConnected
sync_bConnected(s, par, root) ==
    IF par THEN [s EXCEPT !.bConnected = root.bConnected] ELSE s

\* the second broadcast left out: every rank adopts its own nstimd_new
sync_nstimd_local(s, par, root) ==
    [s EXCEPT !.nstimd = s.nstimd_new]

\* second broadcast: nstimd_new, which every rank adopts as nstimd
sync_nstimd(s, par, root) ==
    LET b == IF par THEN [s EXCEPT !.nstimd_new = root.nstimd_new] ELSE s
    IN  [b EXCEPT !.nstimd = b.nstimd_new]

\* the count sent as if every batch were new
signed_nforces_unsigned(s) == s.vmd_nforces

\* the signed count the master computes for the third broadcast
signed_nforces(s) ==
    IF s.bNewForces THEN s.vmd_nforces ELSE s.vmd_nforces * (-1)

\* bcast_forces without the second nblock_bc: the force vectors stay local
bcast_forces_indices_only(s, par, root) ==
    LET src == imd_copyto_MD_Forces([root EXCEPT !.nforces = s.nforces])
    IN  IF par THEN [s EXCEPT !.f_ind = src.f_ind] ELSE s

\* nblock_bc of f_ind and f: every rank gets the master's converted arrays
bcast_forces(s, par, root) ==
    LET src == imd_copyto_MD_Forces([root EXCEPT !.nforces = s.nforces])
    IN  IF par THEN [s EXCEPT !.f_ind = src.f_ind, !.f = src.f] ELSE s

\* third broadcast and the exchange of the force arrays
sync_forces(s, isMaster, par, root, t) ==
    LET own == IF isMaster THEN signed_nforces(s) ELSE 0
        new_nforces == IF par THEN signed_nforces(root) ELSE own
    IN  IF new_nforces >= 0
           THEN LET a == imd_prepare_MD_Forces(
                             [s EXCEPT !.vmd_nforces = new_nforces,
                                       !.nforces = new_nforces])
                    m == IF isMaster THEN imd_copyto_MD_Forces(a) ELSE a
                    b == IF isMaster /\ m.outf THEN output_imd_forces(m, t)
                                               ELSE m
                    c == bcast_forces(b, par, root)
                IN  [c EXCEPT !.bNewForces = FALSE,
                              !.new_nforces = new_nforces]
           ELSE [s EXCEPT !.new_nforces = new_nforces]

\* imd_sync_nodes with the interval adopted before the connection test
imd_sync_nodes_rate_first(s, isMaster, par, root, t) ==
    LET a == sync_bConnected(s, par, root)
        b == sync_nstimd(a, par, root)
    IN  IF ~a.bConnected THEN b
        ELSE IF ~b.bForceActivated THEN b
        ELSE sync_forces(b, isMaster, par, root, t)

\* imd_sync_nodes without its test of bForceActivated
imd_sync_nodes_pull_unchecked(s, isMaster, par, root, t) ==
    LET a == sync_bConnected(s, par, root)
    IN  IF ~a.bConnected THEN a
        ELSE sync_forces(sync_nstimd(a, par, root), isMaster, par, root, t)

\* imd_sync_nodes on one rank; root is the master's structure, the source
\* of every broadcast
imd_sync_nodes(s, isMaster, par, root, t) ==
    LET a == sync_bConnected(s, par, root)
    IN  IF ~a.bConnected THEN a
        ELSE LET b == sync_nstimd(a, par, root)
             IN  IF ~b.bForceActivated THEN b
                 ELSE sync_forces(b, isMaster, par, root, t)

\* the collective calls of imd_sync_nodes with the interval sent first
sync_stages_rate_first(s, isMaster, par, root) ==
    LET bc(x) == IF par THEN <<x>> ELSE <<>>
        a == sync_bConnected(s, par, root)
        b == sync_nstimd(a, par, root)
        new_nforces == IF par THEN signed_nforces(root)
                       ELSE IF isMaster THEN signed_nforces(s) ELSE 0
    IN  IF ~a.bConnected THEN bc("nstimd_new") \o bc("bConnected")
        ELSE bc("nstimd_new") \o bc("bConnected") \o
             (IF ~b.bForceActivated THEN <<>>
              ELSE bc("new_nforces") \o
                   (IF new_nforces >= 0 THEN bc("f_ind") \o bc("f")
                                        ELSE <<>>))

\* the collective calls (block_bc, nblock_bc) one rank makes in
\* imd_sync_nodes, named by what they carry, in the order it makes them
sync_stages(s, isMaster, par, root) ==
    LET bc(x) == IF par THEN <<x>> ELSE <<>>
        a == sync_bConnected(s, par, root)
        b == sync_nstimd(a, par, root)
        new_nforces == IF par THEN signed_nforces(root)
                       ELSE IF isMaster THEN signed_nforces(s) ELSE 0
    IN  bc("bConnected") \o
        (IF ~a.bConnected THEN <<>>
         ELSE bc("nstimd_new") \o
              (IF ~b.bForceActivated THEN <<>>
               ELSE bc("new_nforces") \o
                    (IF new_nforces >= 0 THEN bc("f_ind") \o bc("f")
                                         ELSE <<>>)))

\* the broadcasts (block_bc, nblock_bc) one rank makes in imd_sync_nodes,
\* each with the number of elements the rank gives for it
sync_bcasts(s, isMaster, par, root) ==
    LET st == sync_stages(s, isMaster, par, root)
        post == imd_sync_nodes(s, isMaster, par, root, 0)
    IN  [k \in 1..Len(st) |->
            <<st[k], IF st[k] \in {"f_ind", "f"} THEN post.nforces ELSE 1>>]

\* the broadcasts one rank makes in init_IMD before imd_sync_nodes; bIMD is
\* ir->bIMD, createSession the rank's value after the first of them
init_bcasts(par, bIMD, createSession) ==
    LET bc(x) == IF par THEN <<x>> ELSE <<>>
    IN  IF ~bIMD THEN <<>>
        ELSE bc(<<"createSession", 1>>) \o
             (IF ~createSession THEN <<>>
              ELSE bc(<<"bForceActivated", 1>>))

\* the broadcast of init_imd_prepare_for_x_assembly
assembly_bcasts(par) == IF par THEN << <<"xa_old", nat>> >> ELSE <<>>

(* ------------------------ command dispatcher -------------------------- *)
\* IMD_KILL obeyed without looking at bTerminatable
imd_kill_unconditional(s) ==
    [s EXCEPT !.bTerminated = TRUE, !.bWConnect = FALSE]

\* case IMD_KILL of imd_readcommand; the stop request is the second result
imd_kill(s) ==
    IF s.bTerminatable
       THEN [s EXCEPT !.bTerminated = TRUE, !.bWConnect = FALSE]
       ELSE s

imd_kill_stops(s) == s.bTerminatable

\* IMD_TRATE taking a length of zero literally
imd_trate_literal_zero(s) ==
    [s EXCEPT !.nstimd_new = IF s.length >= 0 THEN s.length ELSE s.nstimd_def,
              !.rated = TRUE]

\* IMD_TRATE taking every length but zero as the interval
imd_trate_signed(s) ==
    [s EXCEPT !.nstimd_new = IF s.length # 0 THEN s.length ELSE s.nstimd_def,
              !.rated = TRUE]

\* case IMD_TRATE of imd_readcommand
imd_trate(s) ==
    [s EXCEPT !.nstimd_new = IF s.length > 0 THEN s.length ELSE s.nstimd_def,
              !.rated = TRUE]

\* case IMD_MDCOMM of imd_readcommand
imd_mdcomm(s, m, gi, gf) ==
    [imd_read_vmd_Forces(s, m, gi, gf) EXCEPT !.bNewForces = TRUE]

\* imd_recv_header: a short header read yields IMD_IOERROR and no length
imd_recv_header(s, m) ==
    IF m.type = IMD_IOERROR THEN s ELSE [s EXCEPT !.length = m.length]

\* imd_readcommand whose default branch only logs the unexpected message
imd_readcommand_keep_unexpected(s, m, gi, gf) ==
    LET h == imd_recv_header(s, m)
    IN  CASE m.type = IMD_KILL       -> imd_kill(h)
          [] m.type = IMD_DISCONNECT -> imd_disconnect(h)
          [] m.type = IMD_MDCOMM     -> imd_mdcomm(h, m, gi, gf)
          [] m.type = IMD_PAUSE      -> h
          [] m.type = IMD_TRATE      -> imd_trate(h)
          [] OTHER                   -> h

\* one pass of the loop body of imd_readcommand on the master's structure
imd_readcommand(s, m, gi, gf) ==
    LET h == imd_recv_header(s, m)
    IN  CASE m.type = IMD_KILL       -> imd_kill(h)
          [] m.type = IMD_DISCONNECT -> imd_disconnect(h)
          [] m.type = IMD_MDCOMM     -> imd_mdcomm(h, m, gi, gf)
          [] m.type = IMD_PAUSE      -> h
          [] m.type = IMD_TRATE      -> imd_trate(h)
          [] OTHER                   -> imd_fatal(h)

\* the loop condition without the pause: the loop ends once nothing is
\* there to read
readcommand_loops_unpaused(s, avail, paused) == s.clientsocket /\ avail

\* loop condition of imd_readcommand; avail is
\* imdsock_tryread(clientsocket, 0, 0) > 0, paused the local IMDpaused
readcommand_loops(s, avail, paused) == s.clientsocket /\ (avail \/ paused)

(* ----------------------------- publishing ----------------------------- *)
\* IMD_send_positions; eOK, xOK: did the two writes go through.  The
\* position write after a failed energy write uses the destroyed socket.
IMD_send_positions_any_rank(s, eOK, xOK) ==
    IF s.sessionPossible
       THEN LET a == IF eOK THEN s ELSE imd_fatal(s)
            IN  IF eOK /\ xOK THEN a ELSE imd_fatal(a)
       ELSE s

IMD_send_positions(s, eOK, xOK) ==
    IF s.sessionPossible /\ s.clientsocket
       THEN LET a == IF eOK THEN s ELSE imd_fatal(s)
            IN  IF eOK /\ xOK THEN a ELSE imd_fatal(a)
       ELSE s

(* --------------------------- force application ------------------------ *)
ZeroVec == <<0, 0, 0>>
rvec_inc(a, b) == <<a[1] + b[1], a[2] + b[2], a[3] + b[3]>>

\* ga2la->findHome(j) on one rank: local index of global atom j, -1 if the
\* atom has no home on the rank
NoHome == -1

\* IMDsetup->ind[k]; for a k that is no place of ind the read goes past
\* the array and finds wild
ind_at(k, wild) == IF k \in 0..(nat - 1) THEN ind[k + 1] ELSE wild

\* loop of IMD_apply_forces from entry i on; acc is the force array f, wild
\* what a read past the end of ind finds
RECURSIVE apply_loop(_, _, _, _, _, _)
apply_loop(s, par, home, acc, i, wild) ==
    IF i > s.nforces THEN acc
    ELSE LET g == ind_at(s.f_ind[i], wild)
             j == IF par /\ home[g] # NoHome THEN home[g] ELSE g
         IN  apply_loop(s, par, home,
                        [acc EXCEPT ![j] = rvec_inc(acc[j], s.f[i])], i + 1,
                        wild)

\* IMD_apply_forces that adds the batch only while connected
IMD_apply_forces_connected_only(s, par, home, acc, wild) ==
    IF s.sessionPossible /\ s.bForceActivated /\ s.bConnected
       THEN apply_loop(s, par, home, acc, 1, wild)
       ELSE acc

IMD_apply_forces(s, par, home, acc, wild) ==
    IF s.sessionPossible /\ s.bForceActivated
       THEN apply_loop(s, par, home, acc, 1, wild)
       ELSE acc

\* IMD_apply_forces on s reads ind at a place the list does not have
reads_past_ind(s) ==
    /\ s.sessionPossible /\ s.bForceActivated
    /\ \E i \in 1..s.nforces : s.f_ind[i] \notin 0..(nat - 1)

\* do_per_step(step, nstep)
do_per_step(st, n) == IF n # 0 THEN st % n = 0 ELSE FALSE

\* a communication step only while a client is connected
imdstep_connected_only(s, st) == do_per_step(st, s.nstimd) /\ s.bConnected

\* do_IMD: is this an IMD communication step on the rank of s
imdstep(s, st) == do_per_step(st, s.nstimd)

\* the positions gathered on connected communication steps alone
gathers_positions_connected_only(s, bStep, bNS) == bStep /\ s.bConnected

\* do_IMD: does the rank of s call communicate_group_positions
gathers_positions(s, bStep, bNS) == (bStep /\ s.bConnected) \/ bNS

\* do_IMD: does the rank of s call imd_remove_molshifts
removes_molshifts(s, bStep, bNS, isMaster) ==
    /\ gathers_positions(s, bStep, bNS)
    /\ (bStep /\ s.bConnected) /\ isMaster

\* assembled outside the end of do_IMD
NoAssembly == [bNS |-> FALSE, gathered |-> {}, unwrapped |-> {}]

(* ------------------------------- state -------------------------------- *)
VARIABLES
    nnodes,          \* cr: number of ranks of the run
    opt,             \* ir->bIMD and mdrunOptions.imdOptions
    IMDsetup,        \* the t_gmx_IMD_setup of every rank
    stop_condition,  \* TRUE iff gmx_get_stop_condition() # gmx_stop_cond_none
    pc,              \* position of the run (all ranks are in lock step)
    ret,             \* where imd_blockconnect returns to
    step,            \* MD step
    bIMDstep,        \* per rank: what do_IMD returned for this step
    synced,          \* ranks that ran imd_sync_nodes in the last do_IMD
    conn,            \* what the last imd_tryconnect met on the sockets
    IMDpaused,       \* local of imd_readcommand
    itype,           \* local of imd_readcommand: type of the last message
    rd_ok,           \* result of the last imd_recv_mdcomm
    waited,          \* the last imd_recv_header found no byte to read at once
    stages,          \* per rank: the stages of the current step, in order
    ga2la,           \* per rank: atom index translation seen by IMD_apply_forces
    force,           \* per rank: force array f handed to IMD_apply_forces
    assembled,       \* bNS of the last do_IMD and the ranks that gathered, unwrapped
    bcasts,          \* per rank: the broadcasts of init_IMD or of the current step
    header,          \* an IMDHeader being filled and swapped, with its inputs
    gather,          \* box, mols, xa_shifts and xa of the master's unwrapping
    energy           \* the energy record over the calls that fill it

\* the variables of the session
session == <<nnodes, opt, IMDsetup, stop_condition, pc, ret, step, bIMDstep,
             synced, conn, IMDpaused, itype, rd_ok, waited, stages, ga2la,
             force, assembled, bcasts>>

vars == <<session, header, gather, energy>>

Ranks == 0 .. (nnodes - 1)
MASTER(p) == p = 0
PAR == nnodes > 1
Atoms == 0 .. (natoms - 1)

\* itype before any header was received
NoType == -1

\* ret while imd_blockconnect is not running
NoReturn == "none"

\* ir->bIMD, the -imdwait, -imdterm and -imdpull switches, nstcalcenergy,
\* whether -if names a force log, the index list and the kind of client
\* the run meets: runs without a force log
RunOptions ==
    { [bIMD |-> b, wait |-> w, terminatable |-> t, pull |-> p, nstImd |-> d,
       forcelog |-> FALSE, ind |-> l, client |-> "fair"] :
          b \in BOOLEAN, w \in BOOLEAN, t \in BOOLEAN, p \in BOOLEAN,
          d \in NstimdDefVals, l \in IndexLists }

\* runs that pull and keep a force log
LogOptions ==
    { [bIMD |-> TRUE, wait |-> w, terminatable |-> FALSE, pull |-> TRUE,
       nstImd |-> d, forcelog |-> TRUE, ind |-> ind, client |-> "fair"] :
          w \in BOOLEAN, d \in NstimdDefVals }

\* runs that pull and meet a client whose force data names places past
\* the list of IMD atoms
WildOptions ==
    { [bIMD |-> TRUE, wait |-> w, terminatable |-> FALSE, pull |-> TRUE,
       nstImd |-> d, forcelog |-> FALSE, ind |-> ind, client |-> "wild"] :
          w \in BOOLEAN, d \in NstimdDefVals }

\* home atoms of rank p under owner, numbered in ascending global order
HomeMap(owner, p) ==
    [g \in Atoms |->
        IF owner[g] = p
           THEN Cardinality({h \in Atoms : h < g /\ owner[h] = p})
           ELSE NoHome]

\* atom distributions of the domain decomposition: every atom on one rank,
\* or the atoms dealt out to the ranks in turn
Distributions ==
    { [g \in Atoms |-> r] : r \in Ranks }
    \cup { [g \in Atoms |-> g % nnodes] }

ZeroForce == [j \in Atoms |-> ZeroVec]

\* the state init_IMD is called in, for a run with one of the options
Start(options) ==
    /\ nnodes \in 1..MaxNodes
    /\ opt \in options
    /\ IMDsetup = [p \in 0..(nnodes - 1) |-> ZeroSetup]
    /\ stop_condition = FALSE
    /\ pc = "init_IMD"
    /\ ret = NoReturn
    /\ step = 0
    /\ bIMDstep = [p \in 0..(nnodes - 1) |-> FALSE]
    /\ synced = {}
    /\ conn = "none"
    /\ IMDpaused = FALSE
    /\ itype = NoType
    /\ rd_ok = TRUE
    /\ waited = FALSE
    /\ stages = [p \in 0..(nnodes - 1) |-> <<>>]
    /\ ga2la = [p \in 0..(nnodes - 1) |-> HomeMap([g \in Atoms |-> 0], p)]
    /\ force = [p \in 0..(nnodes - 1) |-> ZeroForce]
    /\ assembled = NoAssembly
    /\ bcasts = [p \in 0..(nnodes - 1) |-> <<>>]
    /\ header = NoHeader
    /\ gather = NoGather
    /\ energy = NoEnergy

Init == Start(RunOptions)

InitLog == Start(LogOptions)

InitWild == Start(WildOptions)


(* ------------------------------ actions ------------------------------- *)
master == IMDsetup[0]

\* the structures as an entry point finds them
enter ==
    [p \in DOMAIN IMDsetup |->
        IF p = 0
           THEN [IMDsetup[p] EXCEPT !.disconnects = 0, !.written = <<>>,
                                    !.new_nforces = 0]
           ELSE [IMDsetup[p] EXCEPT !.new_nforces = 0]]

NoHomes == [p \in Ranks |-> HomeMap([g \in Atoms |-> 0], p)]

\* options of the master after prepareSession in init_IMD
master_options(s) ==
    [s EXCEPT !.bWConnect = opt.wait,
              !.bTerminatable = opt.terminatable,
              !.bForceActivated = opt.pull]

\* init_IMD up to and including imd_prepare_master_socket
init_IMD ==
    /\ pc = "init_IMD"
    /\ LET createSession == opt.wait \/ opt.terminatable \/ opt.pull
       IN  IF ~opt.bIMD \/ ~createSession
              THEN /\ pc' = "do_IMD"
                   /\ UNCHANGED IMDsetup
              ELSE \E sockOK \in BOOLEAN :
                   LET m0 == master_options(
                                 open_imd_out(
                                     prepareSession(IMDsetup[0], opt.nstImd),
                                     opt.forcelog))
                       m1 == [m0 EXCEPT !.socket = sockOK]
                       wk(p) == [prepareSession(IMDsetup[p], opt.nstImd)
                                   EXCEPT !.bForceActivated = m0.bForceActivated]
                   IN  /\ IMDsetup' = [p \in Ranks |-> IF MASTER(p) THEN m1 ELSE wk(p)]
                       /\ IF ~sockOK THEN pc' = "fatal"
                          ELSE IF m1.bWConnect THEN pc' = "blockconnect"
                          ELSE pc' = "init_sync"
    /\ ret' = IF pc' = "blockconnect" THEN "init_sync" ELSE NoReturn
    /\ bcasts' = [p \in Ranks |->
           init_bcasts(PAR, opt.bIMD,
                       opt.wait \/ opt.terminatable \/ opt.pull)]
    /\ UNCHANGED <<assembled, energy, gather, header, stages, waited, nnodes, opt, stop_condition, step, bIMDstep, synced, conn,
                   IMDpaused, itype, rd_ok, ga2la, force>>

\* imd_blockconnect that waits for a client whatever the stop condition
blockconnect_waits_deaf(s, stop) == ~s.clientsocket

\* imd_blockconnect goes on waiting: the early return and the while
\* condition, both of which read the stop condition
blockconnect_waits(s, stop) == ~s.clientsocket /\ ~stop

\* one test of the loop condition of imd_blockconnect and, if it holds,
\* one imd_tryconnect
imd_blockconnect ==
    /\ pc = "blockconnect"
    /\ IF blockconnect_waits(master, stop_condition)
          THEN /\ \E c \in ConnectInputs :
                     /\ IMDsetup' = [enter EXCEPT
                                        ![0] = imd_tryconnect(enter[0], c)]
                     /\ conn' = c
               /\ UNCHANGED <<pc, ret>>
          ELSE /\ pc' = ret
               /\ ret' = NoReturn
               /\ UNCHANGED <<IMDsetup, conn>>
    /\ UNCHANGED <<bcasts, assembled, energy, gather, header, stages, waited, nnodes, opt, stop_condition, step, bIMDstep, synced,
                   IMDpaused, itype, rd_ok, ga2la, force>>

\* the end of init_IMD: imd_sync_nodes, then the master's
\* init_imd_prepare_mols_in_imdgroup, which begins with the check of the
\* index list (gmx_fatal)
init_sync ==
    /\ pc = "init_sync"
    /\ IMDsetup' = [p \in Ranks |->
                       imd_sync_nodes(enter[p], MASTER(p), PAR, master, 0)]
    /\ pc' = IF index_sorted(opt.ind) THEN "do_IMD" ELSE "fatal"
    /\ conn' = "none"
    /\ bcasts' = [p \in Ranks |->
           bcasts[p] \o sync_bcasts(enter[p], MASTER(p), PAR, master)
                     \o assembly_bcasts(PAR)]
    /\ UNCHANGED <<assembled, energy, gather, header, stages, waited, nnodes, opt, stop_condition, ret, step, bIMDstep, synced,
                   IMDpaused, itype, rd_ok, ga2la, force>>

\* do_IMD without its test of sessionPossible
do_IMD_connect_unguarded ==
    /\ pc = "do_IMD"
    /\ step < MaxStep
    /\ ~stop_condition
    /\ force' = [p \in Ranks |-> ZeroForce]
    /\ ga2la' = NoHomes
    /\ IMDpaused' = FALSE
    /\ itype' = NoType
    /\ rd_ok' = TRUE
    /\ assembled' = assembled
    /\ IF FALSE
          THEN /\ pc' = "publish"
               /\ bIMDstep' = [p \in Ranks |-> FALSE]
               /\ synced' = {}
               /\ UNCHANGED <<IMDsetup, ret, conn>>
          ELSE /\ UNCHANGED <<bIMDstep, synced>>
               /\ IF master.clientsocket
                     THEN /\ pc' = "readcommand"
                          /\ IMDsetup' = enter
                          /\ UNCHANGED <<ret, conn>>
                  ELSE IF master.bWConnect
                     THEN /\ pc' = "blockconnect"
                          /\ ret' = "readcommand"
                          /\ IMDsetup' = enter
                          /\ UNCHANGED conn
                  ELSE /\ \E c \in ConnectInputs :
                             /\ IMDsetup' = [enter EXCEPT
                                                ![0] = imd_tryconnect(enter[0], c)]
                             /\ conn' = c
                       /\ pc' = "readcommand"
                       /\ UNCHANGED ret
    /\ stages' = [p \in Ranks |-> <<>>]
    /\ bcasts' = [p \in Ranks |-> <<>>]
    /\ UNCHANGED <<energy, gather, header, waited, nnodes, opt, stop_condition, step>>

\* do_IMD up to the call of imd_readcommand
do_IMD_connect ==
    /\ pc = "do_IMD"
    /\ step < MaxStep
    /\ ~stop_condition
    /\ force' = [p \in Ranks |-> ZeroForce]
    /\ ga2la' = NoHomes
    /\ IMDpaused' = FALSE
    /\ itype' = NoType
    /\ rd_ok' = TRUE
    \* without a session do_IMD returns at once, whatever bNS is
    /\ IF ~master.sessionPossible
          THEN \E bNS \in BOOLEAN :
                  assembled' = [NoAssembly EXCEPT !.bNS = bNS]
          ELSE assembled' = assembled
    /\ IF ~master.sessionPossible
          THEN /\ pc' = "publish"
               /\ bIMDstep' = [p \in Ranks |-> FALSE]
               /\ synced' = {}
               /\ UNCHANGED <<IMDsetup, ret, conn>>
          ELSE /\ UNCHANGED <<bIMDstep, synced>>
               /\ IF master.clientsocket
                     THEN /\ pc' = "readcommand"
                          /\ IMDsetup' = enter
                          /\ UNCHANGED <<ret, conn>>
                  ELSE IF master.bWConnect
                     THEN /\ pc' = "blockconnect"
                          /\ ret' = "readcommand"
                          /\ IMDsetup' = enter
                          /\ UNCHANGED conn
                  ELSE /\ \E c \in ConnectInputs :
                             /\ IMDsetup' = [enter EXCEPT
                                                ![0] = imd_tryconnect(enter[0], c)]
                             /\ conn' = c
                       /\ pc' = "readcommand"
                       /\ UNCHANGED ret
    /\ stages' = [p \in Ranks |-> <<>>]
    /\ bcasts' = [p \in Ranks |-> <<>>]
    /\ UNCHANGED <<energy, gather, header, waited, nnodes, opt, stop_condition, step>>

\* one test of the loop condition of imd_readcommand and, if it holds, one
\* pass of its body; avail is imdsock_tryread(clientsocket, 0, 0) > 0
do_IMD_readcommand ==
    /\ pc = "readcommand"
    /\ conn' = "none"
    /\ \E avail \in BOOLEAN :
         IF readcommand_loops(master, avail, IMDpaused)
            THEN \E m \in RunMessages(opt), gi \in UninitIdx,
                    gf \in UninitFloat :
                 /\ itype' = m.type
                 /\ waited' = ~avail
                 /\ UNCHANGED stages
                 /\ rd_ok' = IF m.type = IMD_MDCOMM THEN imd_recv_mdcomm(m)
                                                    ELSE rd_ok
                 /\ IF m.type = IMD_MDCOMM /\ m.length < 0
                       THEN \* srenew of a negative size: gmx_fatal
                            /\ pc' = "fatal"
                            /\ IMDsetup' = [enter EXCEPT
                                   ![0] = [imd_recv_header(enter[0], m)
                                             EXCEPT !.vmd_nforces = m.length]]
                       ELSE /\ pc' = pc
                            /\ IMDsetup' = [enter EXCEPT
                                   ![0] = imd_readcommand(enter[0], m, gi, gf)]
                 /\ IMDpaused' = IF m.type = IMD_PAUSE THEN ~IMDpaused
                                                       ELSE IMDpaused
                 /\ stop_condition' =
                        IF m.type = IMD_KILL /\ imd_kill_stops(master)
                           THEN TRUE ELSE stop_condition
            ELSE /\ pc' = "do_IMD_sync"
                 /\ IMDpaused' = FALSE
                 /\ waited' = FALSE
                 /\ stages' = [stages EXCEPT ![0] = <<"readcommand">>]
                 /\ UNCHANGED <<IMDsetup, stop_condition, itype, rd_ok>>
    /\ UNCHANGED <<bcasts, assembled, energy, gather, header, nnodes, opt, ret, step, bIMDstep, synced, ga2la, force>>

\* the rest of do_IMD: is this a communication step, then imd_sync_nodes,
\* then the gathering of the positions and the unwrapping; bNS is the
\* caller's flag of a neighbour-search step
do_IMD_sync ==
    /\ pc = "do_IMD_sync"
    /\ bIMDstep' = [p \in Ranks |-> imdstep(enter[p], step)]
    /\ synced' = {p \in Ranks : imdstep(enter[p], step)}
    /\ IMDsetup' = [p \in Ranks |->
           IF imdstep(enter[p], step)
              THEN imd_sync_nodes(enter[p], MASTER(p), PAR, enter[0], step)
              ELSE enter[p]]
    /\ pc' = "publish"
    /\ itype' = NoType
    /\ rd_ok' = TRUE
    /\ stages' = [p \in Ranks |->
           IF imdstep(enter[p], step)
              THEN stages[p] \o sync_stages(enter[p], MASTER(p), PAR, enter[0])
              ELSE stages[p]]
    /\ bcasts' = [p \in Ranks |->
           IF imdstep(enter[p], step)
              THEN sync_bcasts(enter[p], MASTER(p), PAR, enter[0])
              ELSE <<>>]
    /\ \E bNS \in BOOLEAN :
          assembled' =
              [bNS |-> bNS,
               gathered |-> {p \in Ranks :
                   gathers_positions(IMDsetup'[p], imdstep(enter[p], step), bNS)},
               unwrapped |-> {p \in Ranks :
                   removes_molshifts(IMDsetup'[p], imdstep(enter[p], step), bNS,
                                     MASTER(p))}]
    /\ UNCHANGED <<energy, gather, header, waited, nnodes, opt, stop_condition, ret, step, conn, IMDpaused,
                   ga2la, force>>

\* IMD_prep_energies_send_positions on one rank
IMD_prep_energies_send_positions(s, bStep, eOK, xOK) ==
    IF s.sessionPossible /\ bStep THEN IMD_send_positions(s, eOK, xOK) ELSE s

\* IMD_prep_energies_send_positions on every rank; eOK, xOK are the
\* outcomes of the writes on a rank that has a client socket
publish ==
    /\ pc = "publish"
    /\ IF \E p \in Ranks : /\ IMDsetup[p].sessionPossible /\ bIMDstep[p]
                            /\ IMDsetup[p].clientsocket
          THEN \E eOK \in BOOLEAN, xOK \in BOOLEAN, crash \in BOOLEAN :
               /\ IMDsetup' = [p \in Ranks |->
                      IMD_prep_energies_send_positions(enter[p], bIMDstep[p],
                                                       eOK, xOK)]
               \* a write through the destroyed client socket may end the run
               /\ pc' = IF ~eOK /\ crash THEN "fatal" ELSE "apply_forces"
          ELSE /\ pc' = "apply_forces"
               /\ IMDsetup' = enter
    /\ assembled' = NoAssembly
    /\ UNCHANGED <<bcasts, energy, gather, header, stages, waited, nnodes, opt, stop_condition, ret, step, bIMDstep, synced,
                   conn, IMDpaused, itype, rd_ok, ga2la, force>>

\* IMD_apply_forces on every rank, for the atom distribution of this step.
\* A read past the end of ind is undefined: the run dies, or the read
\* finds the number of some atom, or a number that is no atom's, and the
\* addition to f then goes past the force array and the run dies as well.
apply_forces ==
    /\ pc = "apply_forces"
    /\ \E owner \in Distributions,
          dies \in {d \in BOOLEAN :
                       d => \E p \in Ranks : reads_past_ind(IMDsetup[p])},
          wild \in {g \in Atoms :
                       g # 0 => \E p \in Ranks : reads_past_ind(IMDsetup[p])} :
         /\ ga2la' = [p \in Ranks |-> HomeMap(owner, p)]
         /\ force' = [p \in Ranks |->
                IF dies THEN force[p]
                ELSE IMD_apply_forces(IMDsetup[p], PAR, HomeMap(owner, p),
                                      force[p], wild)]
         /\ pc' = IF dies THEN "fatal" ELSE "do_IMD"
         /\ step' = IF dies THEN step ELSE step + 1
         /\ stages' = IF dies THEN stages
                       ELSE [p \in Ranks |-> Append(stages[p], "apply_forces")]
    /\ IMDsetup' = enter
    /\ UNCHANGED <<bcasts, assembled, energy, gather, header, waited, nnodes, opt, stop_condition, ret, bIMDstep, synced, conn,
                   IMDpaused, itype, rd_ok>>

\* end of the step loop and IMD_finalize
IMD_finalize ==
    /\ pc = "do_IMD"
    /\ step >= MaxStep \/ stop_condition
    /\ pc' = "done"
    \* the domain decomposition and the force array end with the step loop
    /\ ga2la' = NoHomes
    /\ force' = [p \in Ranks |-> ZeroForce]
    /\ stages' = [p \in Ranks |-> <<>>]
    /\ bcasts' = [p \in Ranks |-> <<>>]
    /\ UNCHANGED <<assembled, energy, gather, header, waited, nnodes, opt, IMDsetup, stop_condition, ret, step, bIMDstep,
                   synced, conn, IMDpaused, itype, rd_ok>>

\* an operator-issued stop request (signal handler); the flag is read at
\* the loop test of imd_blockconnect and at the head of the step loop
stop_signal ==
    /\ \/ pc = "blockconnect"
       \/ pc = "do_IMD" /\ step < MaxStep
    /\ ~stop_condition
    /\ stop_condition' = TRUE
    /\ UNCHANGED <<bcasts, assembled, energy, gather, header, stages, waited, nnodes, opt, IMDsetup, pc, ret, step, bIMDstep, synced,
                   conn, IMDpaused, itype, rd_ok, ga2la, force>>

Next ==
    \/ init_IMD
    \/ imd_blockconnect
    \/ init_sync
    \/ do_IMD_connect
    \/ do_IMD_readcommand
    \/ do_IMD_sync
    \/ publish
    \/ apply_forces
    \/ IMD_finalize
    \/ stop_signal

Spec == Init /\ [][Next]_vars

\* the runs that keep a force log
SpecLog == InitLog /\ [][Next]_vars

\* the runs with a client that sends indices past the list
SpecWild == InitWild /\ [][Next]_vars

(* ------------- the header codec on its own: fill, then swap ----------- *)
\* a caller about to fill a header: host byte order, message kind, length
InitCodec ==
    /\ nnodes = 1
    /\ opt = [bIMD |-> FALSE, wait |-> FALSE, terminatable |-> FALSE,
              pull |-> FALSE, nstImd |-> 2, forcelog |-> FALSE, ind |-> ind,
              client |-> "fair"]
    /\ IMDsetup = [p \in 0..0 |-> ZeroSetup]
    /\ stop_condition = FALSE
    /\ pc = "codec"
    /\ ret = NoReturn
    /\ step = 0
    /\ bIMDstep = [p \in 0..0 |-> FALSE]
    /\ synced = {}
    /\ conn = "none"
    /\ IMDpaused = FALSE
    /\ itype = NoType
    /\ rd_ok = TRUE
    /\ waited = FALSE
    /\ stages = [p \in 0..0 |-> <<>>]
    /\ ga2la = [p \in 0..0 |-> HomeMap([g \in Atoms |-> 0], p)]
    /\ force = [p \in 0..0 |-> ZeroForce]
    /\ assembled = NoAssembly
    /\ bcasts = [p \in 0..0 |-> <<>>]
    /\ header \in { [stage |-> "args", big |-> b, type |-> t, length |-> l] :
                        b \in BOOLEAN, t \in HeaderTypes, l \in HeaderLengths }
    /\ gather = NoGather
    /\ energy = NoEnergy

\* fill_header(&header, type, length)
codec_fill ==
    /\ header.stage = "args"
    /\ header' = [stage |-> "filled", big |-> header.big,
                  type |-> header.type, length |-> header.length,
                  wire |-> fill_header(header.type, header.length, header.big)]
    /\ UNCHANGED <<session, gather, energy>>

\* swap_header(&header) on the header as filled
codec_swap ==
    /\ header.stage = "filled"
    /\ header' = [stage |-> "swapped", big |-> header.big,
                  type |-> header.type, length |-> header.length,
                  wire |-> header.wire,
                  host |-> swap_header(header.wire, header.big)]
    /\ UNCHANGED <<session, gather, energy>>

NextCodec ==
    \/ codec_fill
    \/ codec_swap

SpecCodec == InitCodec /\ [][NextCodec]_vars

(* --------- making molecules whole on its own: prepare, then shift ----- *)
InitUnwrap ==
    /\ nnodes = 1
    /\ opt = [bIMD |-> FALSE, wait |-> FALSE, terminatable |-> FALSE,
              pull |-> FALSE, nstImd |-> 2, forcelog |-> FALSE, ind |-> ind,
              client |-> "fair"]
    /\ IMDsetup = [p \in 0..0 |-> ZeroSetup]
    /\ stop_condition = FALSE
    /\ pc = "unwrap"
    /\ ret = NoReturn
    /\ step = 0
    /\ bIMDstep = [p \in 0..0 |-> FALSE]
    /\ synced = {}
    /\ conn = "none"
    /\ IMDpaused = FALSE
    /\ itype = NoType
    /\ rd_ok = TRUE
    /\ waited = FALSE
    /\ stages = [p \in 0..0 |-> <<>>]
    /\ ga2la = [p \in 0..0 |-> HomeMap([g \in Atoms |-> 0], p)]
    /\ force = [p \in 0..0 |-> ZeroForce]
    /\ assembled = NoAssembly
    /\ bcasts = [p \in 0..0 |-> <<>>]
    /\ header = NoHeader
    /\ gather \in { [stage |-> "topology", box |-> b, gmols |-> g,
                      xa_shifts |-> sh, xa |-> Positions] :
                        b \in Boxes, g \in Cuts(natoms),
                        sh \in [1..nat -> ShiftVecs] }
    /\ energy = NoEnergy

\* init_IMD: init_imd_prepare_mols_in_imdgroup on the master
prepare_mols ==
    /\ gather.stage = "topology"
    /\ gather' = [stage |-> "gathered", box |-> gather.box,
                  gmols |-> gather.gmols, xa_shifts |-> gather.xa_shifts,
                  xa |-> gather.xa,
                  mols |-> init_imd_prepare_mols_in_imdgroup(gather.gmols,
                                                             <<0>>, 1)]
    /\ UNCHANGED <<session, header, energy>>

\* do_IMD on the master of a connected step: imd_remove_molshifts
remove_molshifts ==
    /\ gather.stage = "gathered"
    /\ gather' = [stage |-> "whole", box |-> gather.box,
                  gmols |-> gather.gmols, xa_shifts |-> gather.xa_shifts,
                  xa |-> gather.xa, mols |-> gather.mols,
                  sent |-> imd_remove_molshifts(gather.box, gather.mols,
                                                gather.xa_shifts, gather.xa, 1)]
    /\ UNCHANGED <<session, header, energy>>

NextUnwrap ==
    \/ prepare_mols
    \/ remove_molshifts

SpecUnwrap == InitUnwrap /\ [][NextUnwrap]_vars

(* ------- the energy record on its own: the calls of successive steps --- *)
InitEnergy ==
    /\ nnodes = 1
    /\ opt = [bIMD |-> FALSE, wait |-> FALSE, terminatable |-> FALSE,
              pull |-> FALSE, nstImd |-> 2, forcelog |-> FALSE, ind |-> ind,
              client |-> "fair"]
    /\ IMDsetup = [p \in 0..0 |-> ZeroSetup]
    /\ stop_condition = FALSE
    /\ pc = "energy"
    /\ ret = NoReturn
    /\ step = 0
    /\ bIMDstep = [p \in 0..0 |-> FALSE]
    /\ synced = {}
    /\ conn = "none"
    /\ IMDpaused = FALSE
    /\ itype = NoType
    /\ rd_ok = TRUE
    /\ waited = FALSE
    /\ stages = [p \in 0..0 |-> <<>>]
    /\ ga2la = [p \in 0..0 |-> HomeMap([g \in Atoms |-> 0], p)]
    /\ force = [p \in 0..0 |-> ZeroForce]
    /\ assembled = NoAssembly
    /\ bcasts = [p \in 0..0 |-> <<>>]
    /\ header = NoHeader
    /\ gather = NoGather
    /\ energy \in { [stage |-> "init", sessionPossible |-> sp, calls |-> 0,
                      step |-> st, energies |-> ZeroEnergies] :
                        sp \in BOOLEAN, st \in FirstSteps }

\* IMD_prep_energies_send_positions of one step up to the sending: the
\* call of IMD_fill_energy_record; cs: is there a client socket
fill_energy_record ==
    /\ energy.stage \in {"init", "filled"}
    /\ energy.calls < MaxStep
    /\ \E cs \in {c \in BOOLEAN : c => energy.sessionPossible},
          bHaveNewEnergies \in BOOLEAN, enerd \in Enerds :
          energy' = [stage |-> "filled",
                     sessionPossible |-> energy.sessionPossible,
                     calls |-> energy.calls + 1,
                     step |-> next_step(energy.step),
                     energies |-> IMD_fill_energy_record(
                                      energy.sessionPossible, cs,
                                      energy.energies, enerd, energy.step,
                                      bHaveNewEnergies),
                     clientsocket |-> cs,
                     bHaveNewEnergies |-> bHaveNewEnergies,
                     enerd |-> enerd]
    /\ UNCHANGED <<session, header, gather>>

NextEnergy ==
    \/ fill_energy_record

SpecEnergy == InitEnergy /\ [][NextEnergy]_vars


(* ------------------------------- claims ------------------------------- *)

\* C1: a connection attempt whose first message is not IMD_GO, that times
\* out waiting for it, or whose header read fails, returns with the session
\* Idle: bConnected is false and there is no client socket.
C1_claim ==
    conn \in {"timeout", "ioerror", "wrong_first"}
        => (~master.bConnected /\ ~master.clientsocket)

\* the received ForceBatch and the pending flag of a structure
ReceivedBatch(s) == <<s.vmd_nforces, s.vmd_f_ind, s.vmd_forces, s.bNewForces>>

\* a step of the dispatcher that handled a message of type t
Handled(t) ==
    /\ pc = "readcommand"
    /\ master.clientsocket
    /\ pc' = "readcommand"
    /\ itype' = t

\* C2: a force-data message that delivers fewer indices or fewer force
\* vectors than it declares disconnects the client and leaves the received
\* ForceBatch and the pending flag as they were.
C2_claim ==
    [][(Handled(IMD_MDCOMM) /\ ~rd_ok')
          => /\ ~master'.clientsocket
             /\ ~master'.bConnected
             /\ ReceivedBatch(master') = ReceivedBatch(master)]_vars

\* the received flat force array, converted: cal -> J and 1/A -> 1/nm gives
\* 4.184 * 10 per unit, 41840 in thousandths
ExpectedForces(frc, n) ==
    [i \in 1..n |-> <<frc[3*i - 2] * 41840, frc[3*i - 1] * 41840,
                      frc[3*i] * 41840>>]

\* C3: a synchronisation step entered connected, with force injection on
\* and new forces pending on the master, leaves every rank with the same
\* applied batch: the master's received batch, unit-converted.
C3_thm ==
    [][(/\ pc = "do_IMD_sync"
        /\ pc' = "publish"
        /\ bIMDstep'[0]
        /\ master.bConnected
        /\ master.bForceActivated
        /\ master.bNewForces)
          => \A p \in Ranks :
                /\ IMDsetup'[p].nforces = master.vmd_nforces
                /\ IMDsetup'[p].f_ind = master.vmd_f_ind
                /\ IMDsetup'[p].f =
                       ExpectedForces(master.vmd_forces, master.vmd_nforces)]_vars

C3_wit ==
    /\ pc = "publish"
    /\ nnodes = 2
    /\ synced = Ranks
    /\ \A p \in Ranks :
          /\ IMDsetup[p].bConnected
          /\ IMDsetup[p].nforces = 2
          /\ IMDsetup[p].f_ind = <<0, 1>>
          /\ IMDsetup[p].f = <<<<41840, 0, 0>>, <<0, 41840, 0>>>>

\* what the claim lets a rank add at local index j: the entries whose atom
\* has its home on the rank at j
RECURSIVE owned_sum(_, _, _, _)
owned_sum(s, home, j, i) ==
    IF i > s.nforces THEN ZeroVec
    ELSE LET g == ind[s.f_ind[i] + 1]
             rest == owned_sum(s, home, j, i + 1)
         IN  IF home[g] = j THEN rvec_inc(rest, s.f[i]) ELSE rest

\* C4: on a multi-rank run apply-forces adds an entry of the applied batch
\* only on the rank that owns its atom, at the atom's local index; entries
\* of atoms not owned by a rank add nothing to that rank's force array.
C4_claim ==
    (pc = "do_IMD" /\ PAR /\ step > 0
       /\ \A p \in Ranks : ~reads_past_ind(IMDsetup[p]))
        => \A p \in Ranks : \A j \in Atoms :
              force[p][j] = IF IMDsetup[p].bForceActivated
                               THEN owned_sum(IMDsetup[p], ga2la[p], j, 1)
                               ELSE ZeroVec

\* the force-related state and the update interval of a structure
ForceAndRate(s) ==
    <<s.nforces, s.f_ind, s.f, s.bNewForces, s.vmd_nforces, s.vmd_f_ind,
      s.vmd_forces, s.nstimd, s.nstimd_new>>

\* C5: when imd_sync_nodes runs while the master is not connected, every
\* rank ends with bConnected false and with its force-related state and
\* update interval unchanged.
C5_thm ==
    [][(/\ pc = "init_sync" \/ (pc = "do_IMD_sync" /\ synced' = Ranks)
        /\ pc' # pc
        /\ ~master.bConnected)
          => \A p \in Ranks :
                /\ ~IMDsetup'[p].bConnected
                /\ ForceAndRate(IMDsetup'[p]) = ForceAndRate(IMDsetup[p])]_vars

C5_wit ==
    /\ pc = "publish"
    /\ nnodes = 2
    /\ synced = Ranks
    /\ \A p \in Ranks : ~IMDsetup[p].bConnected /\ IMDsetup[p].nforces > 0
    /\ master.nstimd_new # master.nstimd

\* C6: after every set-rate message the negotiated interval is the value
\* of the message if that is positive and the configured default if it is 0.
C6_thm ==
    (pc = "readcommand" /\ itype = IMD_TRATE)
        => /\ master.length > 0 => master.nstimd_new = master.length
           /\ master.length = 0 => master.nstimd_new = opt.nstImd

C6_wit ==
    /\ pc = "readcommand"
    /\ itype = IMD_TRATE
    /\ master.length = 0
    /\ master.nstimd_new = opt.nstImd
    /\ master.nstimd = 1
    /\ step > 0

\* C7: every disconnection leaves the master with bConnected false, no
\* client socket and the negotiated interval back at the default.
C7_claim ==
    master.disconnects > 0
        => /\ ~master.bConnected
           /\ ~master.clientsocket
           /\ master.nstimd_new = master.nstimd_def

SessionState(s) ==
    [s EXCEPT !.length = 0, !.disconnects = 0, !.written = <<>>,
              !.new_nforces = 0, !.rated = FALSE]

\* C9: a kill message sets bTerminated, clears bWConnect and requests the
\* stop exactly if bTerminatable is set; otherwise it changes no session
\* state and requests no stop.
C9_thm ==
    [][Handled(IMD_KILL)
          => IF master.bTerminatable
                THEN /\ master'.bTerminated
                     /\ ~master'.bWConnect
                     /\ stop_condition'
                ELSE /\ SessionState(master') = SessionState(master)
                     /\ \A p \in Ranks \ {0} : IMDsetup'[p] = IMDsetup[p]
                     /\ stop_condition' = stop_condition]_vars

C9_wit ==
    /\ pc = "readcommand"
    /\ itype = IMD_KILL
    /\ opt.wait
    /\ master.bTerminated
    /\ ~master.bWConnect
    /\ stop_condition
    /\ master.clientsocket

\* C10: after a kill message handled with bTerminatable set the client
\* socket is closed and bConnected is false.
C10_claim ==
    (pc = "readcommand" /\ itype = IMD_KILL /\ master.bTerminatable)
        => (~master.clientsocket /\ ~master.bConnected)

\* the message kinds the dispatcher has no case for
Unexpected ==
    {IMD_ENERGIES, IMD_FCOORDS, IMD_GO, IMD_HANDSHAKE, IMD_IOERROR, IMD_NR}

\* C11: a message of any kind other than kill, disconnect, force data,
\* pause and set-rate (go, handshake, energies, coordinates, an
\* out-of-range kind, a failed header read) makes the dispatcher disconnect
\* the client, and the drain loop ends with that pass, paused or not.
C11_thm ==
    [][/\ \A t \in Unexpected :
             Handled(t) => /\ ~master'.clientsocket
                           /\ ~master'.bConnected
                           /\ master'.disconnects = 1
       /\ (pc = "readcommand" /\ itype \in Unexpected)
             => pc' = "do_IMD_sync"]_vars

C11_wit ==
    /\ pc = "readcommand"
    /\ itype = IMD_NR
    /\ IMDpaused
    /\ ~master.clientsocket
    /\ master.disconnects = 1

\* C12: the dispatcher reads a header only when bytes are available at
\* once; it never enters a read that has to wait for the client, paused
\* or not.
C12_claim ==
    ~waited

\* C13: imd_blockconnect makes a connection attempt only while there is
\* no client socket and no stop has been requested; once either holds it
\* attempts nothing more and returns to its caller.
C13_thm ==
    [][pc = "blockconnect"
          => /\ (master.clientsocket \/ stop_condition)
                   => /\ IMDsetup' = IMDsetup
                      /\ conn' = conn
                      /\ pc' = ret \/ stop_condition' # stop_condition
             /\ (pc' = pc /\ stop_condition' = stop_condition)
                   => (~master.clientsocket /\ ~stop_condition)]_vars

C13_wit ==
    /\ pc = "init_sync"
    /\ opt.wait
    /\ stop_condition
    /\ ~master.clientsocket
    /\ conn = "accept_fail"

\* C14: publish disconnects the client at most once: after a failed
\* energy send nothing more is sent in the step, so no second disconnect
\* follows from the position send.
C14_claim ==
    pc \in {"apply_forces", "fatal"} => master.disconnects <= 1

\* the order the stages of a step are to have
StageOrder ==
    <<"readcommand", "bConnected", "nstimd_new", "new_nforces", "f_ind", "f",
      "apply_forces">>

StagePos(x) == CHOOSE i \in 1..Len(StageOrder) : StageOrder[i] = x

\* the collective calls among the stages of a rank
Collectives(sq) ==
    SelectSeq(sq, LAMBDA x : x \notin {"readcommand", "apply_forces"})

C17_thm ==
    header.stage = "swapped"
        => /\ header.host.type = header.type
           /\ header.host.length = header.length

C17_wit ==
    /\ header.stage = "swapped"
    /\ ~header.big
    /\ header.type = IMD_TRATE
    /\ header.length = 16909060
    /\ header.wire = [type |-> 134217728, length |-> 67305985]
    /\ header.host = [type |-> IMD_TRATE, length |-> 16909060]

\* the snapshot and the applied batch agree in count and indices
SameAtoms(old, new) ==
    /\ new.nforces = old.old_nforces
    /\ \A i \in 1..new.nforces : new.f_ind[i] = old.old_f_ind[i]

\* the entries in which the applied batch differs from the snapshot
Differing(old, new) ==
    {i \in 1..new.nforces : new.f[i] # old.old_forces[i]}

\* C18: a synchronisation that carries a fresh batch writes no line to the
\* force log if the applied batch equals the snapshot, and if the force of
\* exactly one atom differs it writes exactly one line, which lists that
\* atom alone: its 1-based global number and its force.
C18_thm ==
    [][(/\ pc = "do_IMD_sync"
        /\ pc' = "publish"
        /\ bIMDstep'[0]
        /\ master.outf
        /\ master.bConnected
        /\ master.bForceActivated
        /\ master.bNewForces
        /\ SameAtoms(master, master'))
          => /\ Differing(master, master') = {}
                   => master'.written = <<>>
             /\ \A k \in 1..master'.nforces :
                   Differing(master, master') = {k}
                       => master'.written =
                              << [time |-> step,
                                  nforces |-> master'.nforces,
                                  atoms |-> << <<ind[master'.f_ind[k] + 1] + 1,
                                                 master'.f[k]>> >>] >>]_vars

C18_wit ==
    /\ pc = "publish"
    /\ step = 1
    /\ master.nforces = 2
    /\ master.f = <<<<41840, 0, 0>>, <<41840, 0, 0>>>>
    /\ master.written =
           << [time |-> 1, nforces |-> 2, atoms |-> << <<3, <<41840, 0, 0>>>> >>] >>

\* difference of two positions
rvec_sub(a, b) == <<a[1] - b[1], a[2] - b[2], a[3] - b[3]>>

\* the IMD atoms (1-based places in xa) of molecule i of the block
MolAtoms(mols, i) == (mols[i] + 1)..mols[i + 1]

\* C19: unwrapping moves all atoms of a molecule by one and the same
\* integer shift vector, so the difference of the positions of any two
\* atoms of a molecule is what it was before.
C19_thm ==
    gather.stage = "whole"
        => \A i \in 1..(Len(gather.mols) - 1) :
              /\ \E is \in ShiftVecs : \A a \in MolAtoms(gather.mols, i) :
                     gather.sent[a] = shift_position(gather.box, gather.xa[a], is)
              /\ \A a, b \in MolAtoms(gather.mols, i) :
                     rvec_sub(gather.sent[a], gather.sent[b])
                         = rvec_sub(gather.xa[a], gather.xa[b])

C19_wit ==
    /\ gather.stage = "whole"
    /\ TRICLINIC(gather.box)
    /\ gather.mols = <<0, 2>>
    /\ gather.xa_shifts = <<<<1, -1, 0>>, <<1, -1, 1>>>>
    /\ gather.sent[1] = shift_position(gather.box, gather.xa[1], <<1, -1, 0>>)
    /\ gather.sent[2] = shift_position(gather.box, gather.xa[2], <<1, -1, 0>>)
    /\ gather.sent[1] # gather.xa[1]

\* the ranks other than the master
Workers == Ranks \ {0}

\* C20: a rank other than the master never has a client socket or a
\* listening socket, never disconnects and never drains commands, and at
\* most one rank holds a client connection.
C20_thm ==
    /\ \A p \in Workers :
          /\ ~IMDsetup[p].clientsocket
          /\ ~IMDsetup[p].socket
          /\ IMDsetup[p].disconnects = 0
          /\ \A k \in 1..Len(stages[p]) : stages[p][k] # "readcommand"
    /\ Cardinality({p \in Ranks : IMDsetup[p].clientsocket}) <= 1

\* a worker that knows of the connection went through the publishing of a
\* step on which the master's write failed
C20_wit ==
    /\ pc = "apply_forces"
    /\ Workers # {}
    /\ master.disconnects >= 1
    /\ \A p \in Workers :
          /\ bIMDstep[p]
          /\ IMDsetup[p].bConnected
          /\ ~IMDsetup[p].clientsocket
          /\ IMDsetup[p].disconnects = 0

\* C21: a run that is aborted for its configuration (here: the index list
\* of the IMD atoms is not sorted) has opened no listening socket and has
\* made no connection attempt and no wait for a client.
C21_claim ==
    (pc = "fatal" /\ ~index_sorted(opt.ind))
        => /\ ~master.socket
           /\ ~master.clientsocket
           /\ ~master.bConnected

\* C22: a poll made without a client socket that meets a connecting
\* client, a successful handshake write and IMD_GO as the first message in
\* time leaves the master connected with a client socket and without a
\* disconnect, whatever happened in earlier sessions.
C22_thm ==
    [][(/\ pc \in {"do_IMD", "blockconnect"}
        /\ ~master.clientsocket
        /\ conn' = "go")
          => /\ master'.bConnected
             /\ master'.clientsocket
             /\ master'.disconnects = 0]_vars

\* connected again by a poll of a later step, with the batch of an earlier
\* session, which a disconnect ended, still in the receive buffer
C22_wit ==
    /\ pc = "readcommand"
    /\ step >= 1
    /\ conn = "go"
    /\ master.bConnected
    /\ master.clientsocket
    /\ master.vmd_nforces > 0
    /\ master.nstimd_new = master.nstimd_def

\* C23: nstimd, the interval that selects the communication steps, is the
\* same on all ranks in every state; after prepareSession it changes only
\* in imd_sync_nodes, where every rank takes the master's nstimd_new.
C23_thm ==
    [][\A p \in Ranks :
          /\ IMDsetup[p].nstimd = master.nstimd
          /\ IMDsetup'[p].nstimd = master'.nstimd
          /\ IMDsetup'[p].nstimd # IMDsetup[p].nstimd
                => /\ pc \in {"init_IMD", "init_sync", "do_IMD_sync"}
                   /\ pc # "init_IMD"
                         => IMDsetup'[p].nstimd = master.nstimd_new]_vars

C23_wit ==
    /\ pc = "publish"
    /\ nnodes = 2
    /\ step = 0
    /\ \A p \in Ranks : IMDsetup[p].bConnected /\ IMDsetup[p].nstimd = 2

\* the applied ForceBatch of a structure
AppliedBatch(s) == <<s.nforces, s.f_ind, s.f>>

\* a step in which imd_sync_nodes ran on all ranks, entered connected and
\* with force injection on
ForceSync ==
    /\ pc = "do_IMD_sync"
    /\ pc' = "publish"
    /\ synced' = Ranks
    /\ master.bConnected
    /\ master.bForceActivated

\* the collective calls of a rank that carry an index or a force array
ArrayCalls(sq) == SelectSeq(sq, LAMBDA x : x \in {"f_ind", "f"})

C25_thm ==
    [][/\ (~master.bNewForces /\ master'.bNewForces) => Handled(IMD_MDCOMM)
       /\ (master.bNewForces /\ ~master'.bNewForces)
             => /\ ForceSync
                /\ \A p \in Ranks :
                      /\ PAR => ArrayCalls(stages'[p]) = <<"f_ind", "f">>
                      /\ IMDsetup'[p].nforces = master.vmd_nforces
                      /\ IMDsetup'[p].f_ind = master.vmd_f_ind
                      /\ IMDsetup'[p].f = ExpectedForces(master.vmd_forces,
                                                         master.vmd_nforces)
       /\ \A p \in Workers : ~IMDsetup'[p].bNewForces]_vars

\* the exchange of a two-atom batch in the second step has cleared the flag
C25_wit ==
    /\ pc = "publish"
    /\ nnodes = 2
    /\ step = 1
    /\ conn = "none"
    /\ ~master.bNewForces
    /\ \A p \in Ranks :
          /\ IMDsetup[p].new_nforces = 2
          /\ IMDsetup[p].nforces = 2
          /\ ArrayCalls(stages[p]) = <<"f_ind", "f">>

\* the two arrays of the received batch and of the applied batch
ReceivedArrays(s) == <<s.vmd_f_ind, s.vmd_forces>>
AppliedArrays(s) == <<s.f_ind, s.f>>

\* both arrays of either batch hold the same number of entries
PairedLengths(s) ==
    /\ Len(s.vmd_forces) = 3 * Len(s.vmd_f_ind)
    /\ Len(s.f) = Len(s.f_ind)

\* C26: on every rank the index array and the force array of the received
\* batch have the same number of entries, and so have those of the applied
\* batch; the two arrays of a batch change together: a changed received
\* pair is the pair of one message, a changed applied pair is the master's
\* received pair, converted.
C26_claim ==
    [][\A p \in Ranks :
          /\ PairedLengths(IMDsetup[p])
          /\ PairedLengths(IMDsetup'[p])
          /\ ReceivedArrays(IMDsetup'[p]) # ReceivedArrays(IMDsetup[p])
                => \E b \in Batches \cup LogBatches :
                      ReceivedArrays(IMDsetup'[p]) = <<b.idx, b.frc>>
          /\ AppliedArrays(IMDsetup'[p]) # AppliedArrays(IMDsetup[p])
                => AppliedArrays(IMDsetup'[p]) =
                       <<master.vmd_f_ind,
                         ExpectedForces(master.vmd_forces, master.vmd_nforces)>>]_vars

\* the collective calls of a rank that carry the force count or an array
ForceCalls(sq) == SelectSeq(sq, LAMBDA x : x \in {"new_nforces", "f_ind", "f"})

\* C27: in a run without -imdpull no rank ever sends or receives a force
\* count or a force array, the applied batch is empty on every rank
\* whatever force data the client sends, and IMD_apply_forces adds nothing
\* to the force array.
C27_thm ==
    ~opt.pull
        => \A p \in Ranks :
              /\ ForceCalls(stages[p]) = <<>>
              /\ IMDsetup[p].new_nforces = 0
              /\ AppliedBatch(IMDsetup[p]) = <<0, <<>>, <<>>>>
              /\ force[p] = ZeroForce

\* a two-rank run without -imdpull after the synchronisation and the force
\* application of a connected step in which a two-atom batch had arrived
C27_wit ==
    /\ ~opt.pull
    /\ nnodes = 2
    /\ pc = "do_IMD"
    /\ step >= 1
    /\ master.clientsocket
    /\ master.vmd_nforces = 2
    /\ master.bNewForces
    /\ stages[0] = <<"readcommand", "bConnected", "nstimd_new", "apply_forces">>
    /\ stages[1] = <<"bConnected", "nstimd_new", "apply_forces">>

\* the temperature and energy fields of an energy record
EnergyFields(e) == [e EXCEPT !.tstep = 0]

\* C28: a call of IMD_fill_energy_record with a client connected sets the
\* step field to the current step and overwrites the temperature and the
\* energies only if new energies are there, else keeps them; without a
\* client the record stays as it is.
C28_claim ==
    [][energy'.stage = "filled"
          => IF energy'.clientsocket
                THEN /\ widen_int64(energy'.energies.tstep) = energy.step
                     /\ ~energy'.bHaveNewEnergies
                           => EnergyFields(energy'.energies)
                                  = EnergyFields(energy.energies)
                ELSE energy'.energies = energy.energies]_vars

\* the snapshot of a structure
Snapshot(s) == <<s.old_nforces, s.old_f_ind, s.old_forces>>

\* the snapshot holds the applied batch: its count and, entry by entry,
\* its indices and forces
SnapshotIsApplied(s) ==
    /\ s.old_nforces = s.nforces
    /\ \A i \in 1..s.nforces :
          s.old_f_ind[i] = s.f_ind[i] /\ s.old_forces[i] = s.f[i]

\* C29: once allocated, the snapshot changes only in a synchronisation
\* that writes a line to the force log; after a written line it holds the
\* applied batch, and a synchronisation that writes no line leaves it as
\* it was.
C29_thm ==
    [][\A p \in Ranks :
          /\ (pc # "init_IMD" /\ Snapshot(IMDsetup'[p]) # Snapshot(IMDsetup[p]))
                => /\ pc = "do_IMD_sync"
                   /\ IMDsetup'[p].written # <<>>
          /\ (pc = "do_IMD_sync" /\ IMDsetup'[p].written # <<>>)
                => SnapshotIsApplied(IMDsetup'[p])
          /\ (pc \in {"init_sync", "do_IMD_sync"} /\ IMDsetup'[p].written = <<>>)
                => Snapshot(IMDsetup'[p]) = Snapshot(IMDsetup[p])]_vars

\* a line was written for a one-atom batch that followed a two-atom batch
C29_wit ==
    /\ pc = "publish"
    /\ step = 1
    /\ Len(master.written) = 1
    /\ master.nforces = 1
    /\ master.old_nforces = 1
    /\ master.old_f_ind[1] = master.f_ind[1]
    /\ master.old_forces[1] = master.f[1]
    /\ master.old_forces[2] # <<0, 0, 0>>

\* the per-atom shifts of molecule i along axis d
AxisShifts(i, d) ==
    {gather.xa_shifts[a][d] : a \in MolAtoms(gather.mols, i)}

\* the shift the rule gives molecule i along axis d
RuleShift(i, d) ==
    LET S == AxisShifts(i, d)
    IN  IF \A v \in S : v > 0 THEN CHOOSE v \in S : \A w \in S : v <= w
        ELSE IF \A v \in S : v < 0 THEN CHOOSE v \in S : \A w \in S : v >= w
        ELSE 0

\* C30: along every axis the atoms of a molecule are moved by the
\* smallest of their shifts if all are positive, by the largest if all
\* are negative, and not at all if the shifts include zero or both signs.
C30_thm ==
    gather.stage = "whole"
        => \A i \in 1..(Len(gather.mols) - 1) :
              \A a \in MolAtoms(gather.mols, i) :
                 gather.sent[a] =
                     shift_position(gather.box, gather.xa[a],
                                    <<RuleShift(i, XX), RuleShift(i, YY),
                                      RuleShift(i, ZZ)>>)

C30_wit ==
    /\ gather.stage = "whole"
    /\ ~TRICLINIC(gather.box)
    /\ gather.mols = <<0, 2>>
    /\ gather.xa_shifts = <<<<1, -2, -1>>, <<2, -1, 1>>>>
    /\ gather.sent = <<shift_position(gather.box, gather.xa[1], <<1, -1, 0>>),
                       shift_position(gather.box, gather.xa[2], <<1, -1, 0>>)>>

\* the block of the global molecules that holds global atom g
BlockOf(gmols, g) ==
    CHOOSE i \in 1..(Len(gmols) - 1) : gmols[i] <= g /\ g < gmols[i + 1]

\* the IMD atoms (1-based places in ind) that lie in some molecule
InSomeMol(gmols) ==
    {a \in 1..nat : \E i \in 1..(Len(gmols) - 1) :
                        gmols[i] <= ind[a] /\ ind[a] < gmols[i + 1]}

\* C31: for the sorted index list the molecule block made at setup cuts
\* the places 0 .. nat-1 into contiguous, non-empty ranges: its index array
\* starts at 0, is strictly increasing and ends at the number of IMD atoms
\* that lie in a molecule, and two IMD atoms are in the same range exactly
\* if they are in the same molecule.
C31_thm ==
    (gather.stage \in {"gathered", "whole"} /\ index_sorted(ind))
        => LET mols == gather.mols
               gmols == gather.gmols
           IN  /\ mols[1] = 0
               /\ \A i \in 1..(Len(mols) - 1) : mols[i] < mols[i + 1]
               /\ mols[Len(mols)] = Cardinality(InSomeMol(gmols))
               /\ mols[Len(mols)] = nat
               /\ \A a, b \in 1..nat :
                      (\E i \in 1..(Len(mols) - 1) :
                           a \in MolAtoms(mols, i) /\ b \in MolAtoms(mols, i))
                      <=> BlockOf(gmols, ind[a]) = BlockOf(gmols, ind[b])

\* the first molecule holds no IMD atom and gets no range; both IMD atoms
\* are in the second
C31_wit ==
    /\ gather.stage = "gathered"
    /\ gather.gmols = <<0, 1, 3>>
    /\ gather.mols = <<0, 2>>

\* C32: in a step of a possible session the positions are gathered on a
\* rank exactly if the step is a communication step on which the rank is
\* connected, or a neighbour-search step; the molecules are made whole on
\* the master alone, and only on a communication step on which it is
\* connected: a neighbour-search step without connection gathers on every
\* rank and unwraps on none.
C32_thm ==
    (pc = "publish" /\ master.sessionPossible)
        => /\ \A p \in Ranks :
                 /\ p \in assembled.gathered
                       <=> ((bIMDstep[p] /\ IMDsetup[p].bConnected)
                              \/ assembled.bNS)
                 /\ p \in assembled.unwrapped
                       <=> (p = 0 /\ bIMDstep[p] /\ IMDsetup[p].bConnected)
           /\ (assembled.bNS /\ ~master.bConnected)
                 => /\ assembled.gathered = Ranks
                    /\ assembled.unwrapped = {}

\* a neighbour-search step of two ranks that is a communication step
\* without a client
C32_wit ==
    /\ pc = "publish"
    /\ master.sessionPossible
    /\ nnodes = 2
    /\ step >= 1
    /\ assembled.bNS
    /\ bIMDstep[0]
    /\ \A p \in Ranks : ~IMDsetup[p].bConnected
    /\ assembled.gathered = Ranks
    /\ assembled.unwrapped = {}

\* C33: on the master bConnected is true exactly if there is a client
\* socket, after every operation.
C33_claim ==
    master.bConnected <=> master.clientsocket

\* C34: in init_IMD and in every step all ranks make the same broadcasts:
\* as many, in the same order and with the same element counts, so that
\* no rank is left in a broadcast which another rank does not make.
C34_thm ==
    \A p \in Ranks : bcasts[p] = bcasts[0]

\* two ranks after a step that exchanged a two-atom batch
C34_wit ==
    /\ pc = "do_IMD"
    /\ nnodes = 2
    /\ step >= 1
    /\ \A p \in Ranks :
          bcasts[p] = << <<"bConnected", 1>>, <<"nstimd_new", 1>>,
                         <<"new_nforces", 1>>, <<"f_ind", 2>>, <<"f", 2>> >>

\* the count and the indices of a batch are places of ind
ValidBatch(n, idx) ==
    /\ 0 <= n /\ n <= nat
    /\ \A i \in 1..Len(idx) : 0 <= idx[i] /\ idx[i] < nat

\* C35: on every rank every index of the received and of the applied
\* batch is a place of the list of IMD atoms (0 <= index < nat) and the
\* size of either batch is between 0 and nat, whatever force data the
\* client sends.
C35_claim ==
    \A p \in Ranks :
       /\ ValidBatch(IMDsetup[p].vmd_nforces, IMDsetup[p].vmd_f_ind)
       /\ ValidBatch(IMDsetup[p].nforces, IMDsetup[p].f_ind)

\* C36: on every rank whose configured default interval is at least 1
\* the update interval and the negotiated interval are at least 1 in every
\* state, whatever set-rate messages (zero and negative ones too),
\* disconnects and reconnects there were.
C36_thm ==
    \A p \in Ranks :
       IMDsetup[p].nstimd_def >= 1
           => (IMDsetup[p].nstimd >= 1 /\ IMDsetup[p].nstimd_new >= 1)

\* a set-rate message with a negative value was handled in a later step
C36_wit ==
    /\ pc = "readcommand"
    /\ step >= 1
    /\ itype = IMD_TRATE
    /\ master.length = -1
    /\ master.nstimd_def >= 1
    /\ master.nstimd_new = master.nstimd_def

\* imd_sync_nodes runs on all ranks in this step of the model
SyncOnAll ==
    /\ pc = "init_sync" \/ (pc = "do_IMD_sync" /\ synced' = Ranks)
    /\ pc' # pc

\* C37: in every connection, the first of the run included, in which the
\* client has sent no set-rate message so far, the interval that
\* imd_sync_nodes adopts on all ranks is the configured default.
C37_claim ==
    [][(SyncOnAll /\ master.bConnected /\ ~master.rated)
          => \A p \in Ranks : IMDsetup'[p].nstimd = master.nstimd_def]_vars

\* C38: with force injection on, after every disconnect bNewForces is
\* false on the master, so that no batch of an ended connection is left
\* to be distributed by the first synchronisation of the next one (looked
\* at where no payload read fell short).
C38_claim ==
    (master.bForceActivated /\ master.disconnects > 0 /\ rd_ok)
        => ~master.bNewForces

\* sum of the force vectors of the atoms in S
RECURSIVE ForceTotal(_, _)
ForceTotal(f, S) ==
    IF S = {} THEN ZeroVec
    ELSE LET j == CHOOSE k \in S : TRUE
         IN  rvec_inc(f[j], ForceTotal(f, S \ {j}))

\* sum of the force vectors of the applied batch from entry i on
RECURSIVE BatchTotal(_, _)
BatchTotal(s, i) ==
    IF i > s.nforces THEN ZeroVec
    ELSE rvec_inc(s.f[i], BatchTotal(s, i + 1))

\* C39: the applied batch of a rank changes only in a synchronisation
\* entered connected, so it outlasts a disconnect; and with force
\* injection on IMD_apply_forces adds every entry of it to the force array
\* in every step, connected or not.
C39_thm ==
    [][\A p \in Ranks :
          /\ AppliedBatch(IMDsetup'[p]) # AppliedBatch(IMDsetup[p])
                => /\ pc \in {"init_sync", "do_IMD_sync"}
                   /\ master.bConnected
          /\ (pc = "apply_forces" /\ pc' = "do_IMD"
                 /\ IMDsetup[p].bForceActivated)
                => ForceTotal(force'[p], Atoms)
                       = rvec_inc(ForceTotal(force[p], Atoms),
                                  BatchTotal(IMDsetup[p], 1))]_vars

\* two ranks after the force application of a step in which the client
\* was gone: the batch of the first step was added again
C39_wit ==
    /\ pc = "do_IMD"
    /\ nnodes = 2
    /\ step = 2
    /\ ~master.clientsocket
    /\ \A p \in Ranks :
          /\ ~IMDsetup[p].bConnected
          /\ IMDsetup[p].nforces = 2
          /\ ForceTotal(force[p], Atoms) = <<41840, 41840, 0>>

\* C40: imd_readcommand returns only when it is not paused or the client
\* socket is gone: while paused with a client the step goes no further;
\* the pause ends only by a further pause message or with the connection,
\* which only a disconnect message, an unexpected message or a failed read
\* closes; and outside the dispatcher nothing is paused.
C40_thm ==
    [][/\ (pc = "readcommand" /\ pc' = "do_IMD_sync")
             => (~IMDpaused \/ ~master.clientsocket)
       /\ (pc = "readcommand" /\ IMDpaused /\ master.clientsocket)
             => (pc' \in {"readcommand", "fatal"} /\ step' = step)
       /\ (IMDpaused /\ ~IMDpaused')
             => \/ Handled(IMD_PAUSE)
                \/ (~master.clientsocket /\ pc' = "do_IMD_sync")
       /\ (IMDpaused /\ master.clientsocket /\ ~master'.clientsocket)
             => \/ itype' \in {IMD_DISCONNECT} \cup Unexpected
                \/ (itype' = IMD_MDCOMM /\ ~rd_ok')
       /\ pc' \notin {"readcommand", "fatal"} => ~IMDpaused']_vars

\* paused, the dispatcher waited for the next message, which was the
\* client's disconnect
C40_wit ==
    /\ pc = "readcommand"
    /\ IMDpaused
    /\ waited
    /\ itype = IMD_DISCONNECT
    /\ ~master.clientsocket
    /\ master.disconnects = 1

====
